---- MODULE Spec2Model ----
(***************************************************************************)
(* FlashPlate: watchlist, recognition client and capture loop of the       *)
(* plate scanner (services/geminiService.ts, which holds both the          *)
(* recognition client and the App component).                              *)
(*                                                                         *)
(* React state is modelled by one variable per useState/useRef cell.  A    *)
(* state update, the re-render it causes and the effects that re-render    *)
(* flushes are one step: React queues them immediately, the next timer     *)
(* tick is 1200 ms away.  What is NOT atomic is every `await`: the         *)
(* continuation of processFrame and of startCamera runs as a later step,   *)
(* with the variables its closure captured when the call started.          *)
(*                                                                         *)
(* Plate strings are sequences of one-character strings.  The `time` field *)
(* of a log entry and `createdAt` of a plate are wall-clock values no      *)
(* branch of the code reads; they are left out.                            *)
(***************************************************************************)
EXTENDS Integers, Sequences, FiniteSets, TLC

\* ---------------------------------------------------------------- bounds
MaxRequests == 2    \* recognition requests issued in one behaviour
MaxToggles  == 3    \* mode toggles in one behaviour
MaxIds      == 2    \* watchlist entries created in one behaviour
MaxDetected == 1    \* plates in one recognition result
MaxLogEvents == 17  \* appended events in the session-log specification

\* ------------------------------------------------------ program constants
LogCap     == 15     \* slice(0, 15)
TickPeriod == 1200   \* setInterval(processFrame, 1200)
MinPlateLen == 4     \* normalized.length < 4

NoStream == 0
NoPlate  == <<>>     \* detectedRecently === null

\* ------------------------------------------------------------ normalizer
Digits  == {"0", "1", "2", "9"}
Uppers  == {"A", "B", "Z"}

toUpperChar(c) ==
  CASE c = "a" -> "A"
    [] c = "b" -> "B"
    [] c = "z" -> "Z"
    [] OTHER   -> c

RECURSIVE toUpperCase(_)
toUpperCase(s) ==
  IF s = <<>> THEN <<>> ELSE <<toUpperChar(Head(s))>> \o toUpperCase(Tail(s))

IsAlnumUpper(c) == c \in Uppers \cup Digits

RECURSIVE stripNonAlnum(_)
stripNonAlnum(s) ==
  IF s = <<>> THEN <<>>
  ELSE (IF IsAlnumUpper(Head(s)) THEN <<Head(s)>> ELSE <<>>) \o stripNonAlnum(Tail(s))

normalizePlate(val) == stripNonAlnum(toUpperCase(val))

\* ------------------------------------------------------------ input sets
RawPlates ==
  { <<"a", "b", "-", "1", " ", "2">>,
    <<"Z", "Z", "9", "9">> }

RawInputs ==
  { <<"a", "b", "-", "1", "2">>,
    <<"Z", "Z", "9", "9">>,
    <<"a", "-", "1">> }

RECURSIVE SeqsUpTo(_, _)
SeqsUpTo(S, n) ==
  IF n = 0 THEN { <<>> }
  ELSE LET shorter == SeqsUpTo(S, n - 1)
       IN  shorter \cup { Append(s, x) : s \in { t \in shorter : Len(t) = n - 1 }, x \in S }

Msg429      == <<"e", "4", "2", "9">>
MsgNetwork  == <<"n", "e", "t">>
NoMessage   == <<>>        \* an error object without a message
ErrorMessages == { Msg429, MsgNetwork, NoMessage }

\* what the backend call can come back with
Responses ==
  { [kind |-> "ok", plates |-> d, message |-> NoMessage] : d \in SeqsUpTo(RawPlates, MaxDetected) }
  \cup { [kind |-> "error", plates |-> <<>>, message |-> m] : m \in ErrorMessages }

\* ---------------------------------------------------- recognition client
\* String.prototype.includes
Includes(s, sub) ==
  \E i \in 0..(Len(s) - Len(sub)) : SubSeq(s, i + 1, i + Len(sub)) = sub

QuotaNeedle == <<"4", "2", "9">>

Returned(p) == [threw |-> FALSE, error |-> "", plates |-> p]
Thrown(e)   == [threw |-> TRUE, error |-> e, plates |-> <<>>]

\* response.text as a sequence of tokens: "{", "}", "[", "]", the key
\* "plates", single characters, and whole plate strings such as "AB12"
Structural == { "{", "}", "[", "]", "plates", " " }
JsonDigits == Digits \cup { "4" }

\* String.prototype.trim
RECURSIVE trimStart(_)
trimStart(t) == IF t # <<>> /\ Head(t) = " " THEN trimStart(Tail(t)) ELSE t

RECURSIVE trimEnd(_)
trimEnd(t) ==
  IF t # <<>> /\ t[Len(t)] = " " THEN trimEnd(SubSeq(t, 1, Len(t) - 1)) ELSE t

trim(t) == trimEnd(trimStart(t))

JsonError       == [ok |-> FALSE, isArray |-> FALSE, plates |-> <<>>]
JsonPlates(v)   == [ok |-> TRUE, isArray |-> TRUE, plates |-> v]
JsonNoPlates    == [ok |-> TRUE, isArray |-> FALSE, plates |-> <<>>]

\* JSON.parse on the texts drawn here, with Array.isArray(result.plates):
\* {} | {"plates": <number>} | {"plates": [<string>...]} | anything else
parseBody(t) ==
  IF t = <<"{", "}">> THEN JsonNoPlates
  ELSE IF Len(t) < 4 \/ t[1] # "{" \/ t[2] # "plates" \/ t[Len(t)] # "}" THEN JsonError
  ELSE LET inner == SubSeq(t, 3, Len(t) - 1) IN
       IF \A k \in 1..Len(inner) : inner[k] \in JsonDigits THEN JsonNoPlates
       ELSE IF /\ Len(inner) >= 2
               /\ inner[1] = "[" /\ inner[Len(inner)] = "]"
               /\ \A k \in 2..(Len(inner) - 1) : inner[k] \notin Structural \cup JsonDigits
       THEN JsonPlates(SubSeq(inner, 2, Len(inner) - 1))
       ELSE JsonError

\* the message of the SyntaxError JSON.parse throws: engines word it
\* differently, some quote the text they were given
SyntaxMessage == <<"U", "n", "e", "x", "p">>
SyntaxMessages(t) == { SyntaxMessage, SyntaxMessage \o t }

\* the catch block
Caught(message) ==
  IF Includes(message, QuotaNeedle) THEN Thrown("QUOTA_EXCEEDED")
  ELSE Returned(<<>>)

detectPlatesFromImageSwallowQuota(resp) == Returned(resp.plates)

\* the call after the payload guard; resp is what generateContent came back
\* with: "ok" a well-formed answer given by its plates, "text" an answer
\* given by its text (message is what JSON.parse throws if it throws),
\* "error" a rejection
detectPlatesFromImage(resp) ==
  IF resp.kind = "ok" THEN Returned(resp.plates)
  ELSE IF resp.kind = "text"
  THEN IF resp.text = <<>> THEN Returned(<<>>)
       ELSE LET result == parseBody(trim(resp.text)) IN
            IF ~result.ok THEN Caught(resp.message)
            ELSE IF result.isArray THEN Returned(result.plates)
            ELSE Returned(<<>>)
  ELSE Caught(resp.message)

MinPayload == 50

PayloadTooSmallOnlyEmpty(len) == len = 0

\* !base64Image || base64Image.length < 50
PayloadTooSmall(len) == len = 0 \/ len < MinPayload

\* detectPlatesFromImage(base64Image) for a payload of len characters: what
\* it gives back and how many times it called the backend
detectPlatesCall(len, resp) ==
  IF PayloadTooSmall(len) THEN [ret |-> Returned(<<>>), calls |-> 0]
  ELSE [ret |-> detectPlatesFromImage(resp), calls |-> 1]

BodyTexts ==
  { <<>>,
    <<" ">>,
    <<"{", "}">>,
    <<"{", "plates", "4", "2", "9", "}">>,
    <<"{", "plates", "[", "]", "}">>,
    <<" ", "{", "plates", "[", "AB12", "]", "}", " ">>,
    <<"{", "plates", "[", "AB12", "ZZ99", "]", "}">>,
    <<"{", "plates", "[", "AB12">>,
    <<"{", "plates", "4", "2", "9", "x", "}">>,
    <<"{", "plates", "[", "4", "2", "9", "x", "]", "}">> }

PayloadLens == { 0, 1, 49, 50, 51 }

TextResponses ==
  UNION { { [kind |-> "text", text |-> t, message |-> m] : m \in SyntaxMessages(trim(t)) } :
            t \in BodyTexts }

\* one call of the client: its payload length, what the backend would answer,
\* and, once done, what the call gave back and how often it called out
ClientCall(len, resp) ==
  [len |-> len, resp |-> resp, done |-> FALSE, ret |-> Returned(<<>>), calls |-> 0]

ClientIdle == ClientCall(0, [kind |-> "error", plates |-> <<>>, message |-> NoMessage])

ClientInputs ==
  { ClientCall(len, resp) : len \in PayloadLens, resp \in Responses \cup TextResponses }

\* ------------------------------------------------------------ session log
Take(s, n) == SubSeq(s, 1, IF Len(s) < n THEN Len(s) ELSE n)

Entry(msg, type, match) == [number |-> msg, match |-> match, type |-> type]

addLogKeepOldest(prev, msg, type, match) ==
  Take(prev \o <<Entry(msg, type, match)>>, LogCap)

addLog(prev, msg, type, match) ==
  Take(<<Entry(msg, type, match)>> \o prev, LogCap)

SignalLoss == <<"S", "I", "G", "N", "A", "L", " ", "L", "O", "S", "S">>

\* -------------------------------------------------------- persisted store
\* localStorage['flash_plates']: absent (getItem gives null) or a text.  A
\* text is a sequence of tokens; a plate is written as { id number-characters }.
SavedIds == {8, 9}                        \* ids created by earlier runs
IdRange  == (0..(MaxIds + 1)) \cup SavedIds

Absent     == [present |-> FALSE, text |-> <<>>]
Stored(t)  == [present |-> TRUE, text |-> t]

RECURSIVE stringifyItems(_)
stringifyItems(list) ==
  IF list = <<>> THEN <<>>
  ELSE <<"{", ToString(Head(list).id)>> \o Head(list).number \o <<"}">>
       \o stringifyItems(Tail(list))

\* JSON.stringify(plates)
stringify(list) == <<"[">> \o stringifyItems(list) \o <<"]">>

ParseFailed == [ok |-> FALSE, isList |-> FALSE, value |-> <<>>]
ParsedList(v) == [ok |-> TRUE, isList |-> TRUE, value |-> v]
ParsedOther == [ok |-> TRUE, isList |-> FALSE, value |-> <<>>]

IsIdToken(tok) == \E n \in IdRange : ToString(n) = tok
IdOfToken(tok) == CHOOSE n \in IdRange : ToString(n) = tok

\* position of the first "}" of toks, 0 if there is none
CloseAt(toks) ==
  IF \E k \in 1..Len(toks) : toks[k] = "}"
  THEN CHOOSE k \in 1..Len(toks) : toks[k] = "}" /\ \A j \in 1..(k - 1) : toks[j] # "}"
  ELSE 0

RECURSIVE parseItems(_)
parseItems(toks) ==
  IF toks = <<>> THEN ParsedList(<<>>)
  ELSE IF Head(toks) # "{" \/ CloseAt(toks) < 3 \/ ~IsIdToken(toks[2]) THEN ParseFailed
  ELSE LET k    == CloseAt(toks)
           rest == parseItems(SubSeq(toks, k + 1, Len(toks)))
       IN  IF ~rest.ok THEN ParseFailed
           ELSE ParsedList(<< [id |-> IdOfToken(toks[2]), number |-> SubSeq(toks, 3, k - 1)] >>
                           \o rest.value)

\* JSON.parse(saved): a list of plates, another JSON value, or a SyntaxError
parseSaved(text) ==
  IF text = <<"{", "}">> THEN ParsedOther
  ELSE IF Len(text) < 2 \/ Head(text) # "[" \/ text[Len(text)] # "]" THEN ParseFailed
  ELSE parseItems(SubSeq(text, 2, Len(text) - 1))

PersistedWithoutNewest(list) ==
  Stored(stringify(IF list = <<>> THEN list ELSE Tail(list)))

\* localStorage.setItem('flash_plates', JSON.stringify(plates))
Persisted(list) == Stored(stringify(list))

\* alert(...) texts
NoAlert        == "none"
AlertInvalid   == "Format invalide"
AlertDuplicate == "Deja surveille"
AlertCamera    == "Erreur Camera HD/4K"

\* ------------------------------------------------------------------ state
VARIABLES
  mode,             \* useState<AppMode>
  plates,           \* useState<Plate[]>: sequence of [id, number]
  isProcessing,     \* useState(false)
  apiStatus,        \* useState('OK')
  detectedRecently, \* useState<string | null>
  sessionLog,       \* useState([...])
  streamRef,        \* streamRef.current: a stream id or NoStream
  videoSrc,         \* videoRef.current.srcObject (NoStream when unset or unmounted)
  frameReady,       \* videoRef.current.readyState === HAVE_ENOUGH_DATA
  liveStreams,      \* camera streams whose tracks have not been stopped
  pendingCam,       \* startCamera calls suspended at getUserMedia
  interval,         \* period of the running setInterval, 0 when cleared
  inflight,         \* processFrame calls suspended at detectPlatesFromImage
  decayTimers,      \* pending setTimeout(() => setDetectedRecently(null), 5000)
  nextId,           \* next crypto.randomUUID()
  storage,          \* localStorage['flash_plates']
  phase,            \* "created" (rendered, effects not flushed), "mounted",
                    \* "running", or "crashed" (an error escaped to React)
  pendingLoad,      \* the value the load effect passed to setPlates
  \* history (not program state)
  appended,         \* every entry addLog was called with, newest first
  alertCount,       \* audio alerts played
  busySkipped,      \* a tick found a request outstanding and returned
  lastAlert,        \* the alert() the last step raised, NoAlert if none
  client,           \* a call of detectPlatesFromImage made on its own
  nReq, nToggles

vars == << mode, plates, isProcessing, apiStatus, detectedRecently,
           sessionLog, streamRef, videoSrc, frameReady, liveStreams,
           pendingCam, interval, inflight, decayTimers, nextId,
           storage, phase, pendingLoad,
           appended, alertCount, busySkipped, lastAlert, client, nReq, nToggles >>

storeVars == << storage, phase, pendingLoad >>

InitialWatchlists ==
  { <<>>, << [id |-> 1, number |-> <<"A", "B", "1", "2">>] >> }

AppInit ==
  /\ mode = "LIST"
  /\ plates \in InitialWatchlists
  /\ isProcessing = FALSE
  /\ apiStatus = "OK"
  /\ detectedRecently = NoPlate
  /\ sessionLog = <<>>
  /\ streamRef = NoStream
  /\ videoSrc = NoStream
  /\ frameReady = FALSE
  /\ liveStreams = {}
  /\ pendingCam = 0
  /\ interval = 0
  /\ inflight = {}
  /\ decayTimers = 0
  /\ nextId = 2
  /\ storage = Persisted(plates)
  /\ phase = "running"
  /\ pendingLoad = ParseFailed
  /\ appended = <<>>
  /\ alertCount = 0
  /\ busySkipped = FALSE
  /\ lastAlert = NoAlert
  /\ nReq = 0
  /\ nToggles = 0

Init == AppInit /\ client = ClientIdle


\* ------------------------------------------------------------- watchlist
Numbers(list) == { list[i].number : i \in 1..Len(list) }
Ids(list)     == { list[i].id : i \in 1..Len(list) }

FilterOutIdDropsNewest(list, id) ==
  IF id \in Ids(list) THEN Tail(list) ELSE list

RECURSIVE FilterOutId(_, _)
FilterOutId(list, id) ==
  IF list = <<>> THEN <<>>
  ELSE (IF Head(list).id # id THEN <<Head(list)>> ELSE <<>>) \o FilterOutId(Tail(list), id)

\* ------------------------------------------------- camera and timer effect
\* stopCamera, as a function of (streamRef, liveStreams)
StoppedLive == IF streamRef # NoStream THEN liveStreams \ {streamRef} ELSE liveStreams

ModeEffectKeepsTimer(m) ==
  /\ liveStreams' = StoppedLive
  /\ streamRef' = NoStream
  /\ pendingCam' = IF m = "FLASH" THEN pendingCam + 1 ELSE pendingCam
  /\ interval' = IF m = "FLASH" THEN TickPeriod ELSE interval

\* useEffect(..., [mode, processFrame]): cleanup of the previous run, then the
\* body for mode m.  Runs whenever mode, plates or isProcessing changed.
ModeEffect(m) ==
  /\ liveStreams' = StoppedLive
  /\ streamRef' = NoStream
  /\ pendingCam' = IF m = "FLASH" THEN pendingCam + 1 ELSE pendingCam
  /\ interval' = IF m = "FLASH" THEN TickPeriod ELSE 0

NoEffect == UNCHANGED << liveStreams, streamRef, pendingCam, interval >>

\* ------------------------------------------------------------ user actions
\* onClick={() => setMode(mode === FLASH ? LIST : FLASH)}; the scan view's
\* <video> is unmounted in LIST and mounted afresh in FLASH.
ToggleMode ==
  /\ phase = "running"
  /\ nToggles < MaxToggles
  /\ lastAlert' = NoAlert
  /\ UNCHANGED << storeVars, client >>
  /\ nToggles' = nToggles + 1
  /\ mode' = IF mode = "FLASH" THEN "LIST" ELSE "FLASH"
  /\ ModeEffect(mode')
  /\ videoSrc' = NoStream
  /\ frameReady' = FALSE
  /\ UNCHANGED << plates, isProcessing, apiStatus, detectedRecently,
                  sessionLog, inflight, decayTimers, nextId,
                  appended, alertCount, busySkipped, nReq >>

AddRejectedAllowsDuplicate(list, text) == Len(normalizePlate(text)) < MinPlateLen

AddRejectedAllowsShort(list, text) == normalizePlate(text) \in Numbers(list)

\* the two early returns of addPlate
AddRejected(list, text) ==
  \/ Len(normalizePlate(text)) < MinPlateLen
  \/ normalizePlate(text) \in Numbers(list)

\* return alert("Format invalide") / return alert("Deja surveille")
AddAlert(list, text) ==
  IF Len(normalizePlate(text)) < MinPlateLen THEN AlertInvalid
  ELSE IF normalizePlate(text) \in Numbers(list) THEN AlertDuplicate
  ELSE NoAlert

\* the add form exists in LIST only; text is what was typed into it (newPlate)
AddPlate(text) ==
  /\ phase = "running"
  /\ mode = "LIST"
  /\ nextId <= MaxIds
  /\ lastAlert' = AddAlert(plates, text)
  /\ IF AddRejected(plates, text)
     THEN /\ NoEffect
          /\ UNCHANGED << plates, nextId, storage >>
     ELSE /\ plates' = << [id |-> nextId, number |-> normalizePlate(text)] >> \o plates
          /\ nextId' = nextId + 1
          /\ storage' = Persisted(plates')
          /\ ModeEffect(mode)
  /\ UNCHANGED << phase, pendingLoad, client >>
  /\ UNCHANGED << mode, isProcessing, apiStatus, detectedRecently, sessionLog,
                  videoSrc, frameReady, inflight, decayTimers,
                  appended, alertCount, busySkipped, nReq, nToggles >>

\* the trash button of a listed entry; filter() always yields a new array
RemovePlate(id) ==
  /\ phase = "running"
  /\ mode = "LIST"
  /\ plates' = FilterOutId(plates, id)
  /\ storage' = Persisted(plates')
  /\ lastAlert' = NoAlert
  /\ UNCHANGED << phase, pendingLoad, client >>
  /\ ModeEffect(mode)
  /\ UNCHANGED << mode, isProcessing, apiStatus, detectedRecently,
                  sessionLog, videoSrc, frameReady, inflight,
                  decayTimers, nextId, appended, alertCount, busySkipped, nReq, nToggles >>

\* ------------------------------------------------------------------ camera
\* the continuation of startCamera after `await getUserMedia`: the call is
\* rejected (catch: alert) or hands over a stream with live tracks, which is
\* stored only if the scan view's <video> is mounted (videoRef.current)
CameraOutcomes == {"denied", "granted"}

\* the device hands out a stream nothing refers to yet (stopped streams that
\* nothing refers to any more give their name back)
FreshStream ==
  CHOOSE n \in 1..(Cardinality(liveStreams) + 3) :
    /\ n \notin liveStreams \cup {videoSrc, streamRef}
    /\ \A k \in 1..(n - 1) : k \in liveStreams \cup {videoSrc, streamRef}

CameraSettle(outcome) ==
  /\ pendingCam > 0
  /\ lastAlert' = IF outcome = "denied" THEN AlertCamera ELSE NoAlert
  /\ UNCHANGED << storeVars, client >>
  /\ pendingCam' = pendingCam - 1
  /\ IF outcome = "denied"
     THEN UNCHANGED << liveStreams, streamRef, videoSrc, frameReady >>
     ELSE /\ liveStreams' = liveStreams \cup {FreshStream}
          /\ IF mode = "FLASH"
             THEN /\ videoSrc' = FreshStream
                  /\ streamRef' = FreshStream
                  /\ frameReady' = FALSE
             ELSE UNCHANGED << streamRef, videoSrc, frameReady >>
  /\ UNCHANGED << mode, plates, isProcessing, apiStatus, detectedRecently,
                  sessionLog, interval, inflight, decayTimers, nextId,
                  appended, alertCount, busySkipped, nReq, nToggles >>

\* the <video> element receives data from a live stream
VideoData ==
  /\ mode = "FLASH"
  /\ lastAlert' = NoAlert
  /\ UNCHANGED << storeVars, client >>
  /\ videoSrc \in liveStreams
  /\ ~frameReady
  /\ frameReady' = TRUE
  /\ UNCHANGED << mode, plates, isProcessing, apiStatus, detectedRecently,
                  sessionLog, streamRef, videoSrc, liveStreams, pendingCam,
                  interval, inflight, decayTimers, nextId, appended, alertCount, busySkipped,
                  nReq, nToggles >>

\* whether an element whose stream was stopped keeps its last frame is up to
\* the browser
VideoStall ==
  /\ frameReady
  /\ lastAlert' = NoAlert
  /\ UNCHANGED << storeVars, client >>
  /\ videoSrc \notin liveStreams
  /\ frameReady' = FALSE
  /\ UNCHANGED << mode, plates, isProcessing, apiStatus, detectedRecently,
                  sessionLog, streamRef, videoSrc, liveStreams, pendingCam,
                  interval, inflight, decayTimers, nextId, appended, alertCount, busySkipped,
                  nReq, nToggles >>

\* ------------------------------------------------------------ capture loop
TickAdmitsIgnoringBusy == mode = "FLASH" /\ frameReady

\* the two early returns of processFrame
TickAdmits == mode = "FLASH" /\ ~isProcessing /\ frameReady

\* a timer tick: processFrame up to its await
Tick(ctxOk) ==
  /\ interval # 0
  /\ lastAlert' = NoAlert
  /\ UNCHANGED << storeVars, client >>
  /\ IF ~TickAdmits
     THEN /\ ctxOk
          /\ busySkipped' = (busySkipped \/ (mode = "FLASH" /\ isProcessing))
          /\ NoEffect
          /\ UNCHANGED << isProcessing, inflight, nReq >>
     ELSE IF ~ctxOk
     THEN /\ NoEffect
          /\ UNCHANGED << isProcessing, inflight, nReq, busySkipped >>
     ELSE /\ nReq < MaxRequests
          /\ nReq' = nReq + 1
          /\ inflight' = inflight \cup { [rid |-> nReq + 1, plates |-> plates] }
          /\ isProcessing' = TRUE
          /\ UNCHANGED busySkipped
          /\ IF isProcessing THEN NoEffect ELSE ModeEffect(mode)
  /\ UNCHANGED << mode, plates, apiStatus, detectedRecently, sessionLog,
                  videoSrc, frameReady, decayTimers, nextId,
                  appended, alertCount, nToggles >>

\* detected.forEach(...) over the watchlist the closure captured
RECURSIVE Reconcile(_, _, _)
Reconcile(detected, watch, st) ==
  IF detected = <<>> THEN st
  ELSE LET norm    == normalizePlate(Head(detected))
           isMatch == norm \in Numbers(watch)
           type    == IF isMatch THEN "SUCCESS" ELSE "INFO"
           next    == [ log    |-> addLog(st.log, norm, type, isMatch),
                        hist   |-> <<Entry(norm, type, isMatch)>> \o st.hist,
                        alerts |-> IF isMatch THEN st.alerts + 1 ELSE st.alerts,
                        recent |-> IF isMatch THEN norm ELSE st.recent,
                        timers |-> IF isMatch THEN st.timers + 1 ELSE st.timers ]
       IN  Reconcile(Tail(detected), watch, next)

ProcessingAfterSettleNoFinally(ret) == ret.threw

\* finally { setIsProcessing(false) }
ProcessingAfterSettle(ret) == FALSE

\* the continuation of processFrame after `await detectPlatesFromImage`
Settle(r, resp) ==
  LET ret == detectPlatesFromImage(resp)
      st0 == [ log |-> sessionLog, hist |-> appended, alerts |-> alertCount,
               recent |-> detectedRecently, timers |-> decayTimers ]
      st1 == IF ~ret.threw THEN Reconcile(ret.plates, r.plates, st0)
             ELSE IF ret.error # "QUOTA_EXCEEDED"
             THEN [ st0 EXCEPT !.log  = addLog(st0.log, SignalLoss, "ERROR", FALSE),
                               !.hist = <<Entry(SignalLoss, "ERROR", FALSE)>> \o st0.hist ]
             ELSE st0
  IN
  /\ r \in inflight
  /\ inflight' = inflight \ {r}
  /\ lastAlert' = NoAlert
  /\ UNCHANGED << storeVars, client >>
  /\ apiStatus' = IF ~ret.threw THEN "OK"
                  ELSE IF ret.error = "QUOTA_EXCEEDED" THEN "QUOTA" ELSE "ERROR"
  /\ sessionLog' = st1.log
  /\ appended' = st1.hist
  /\ alertCount' = st1.alerts
  /\ detectedRecently' = st1.recent
  /\ decayTimers' = st1.timers
  /\ isProcessing' = ProcessingAfterSettle(ret)
  /\ IF isProcessing' # isProcessing THEN ModeEffect(mode) ELSE NoEffect
  /\ UNCHANGED << mode, plates, videoSrc, frameReady,
                  nextId, busySkipped, nReq, nToggles >>

\* setTimeout(() => setDetectedRecently(null), 5000)
DecayFire ==
  /\ decayTimers > 0
  /\ lastAlert' = NoAlert
  /\ UNCHANGED << storeVars, client >>
  /\ decayTimers' = decayTimers - 1
  /\ detectedRecently' = NoPlate
  /\ NoEffect
  /\ UNCHANGED << mode, plates, isProcessing, apiStatus, sessionLog,
                  videoSrc, frameReady, inflight, nextId,
                  appended, alertCount, busySkipped, nReq, nToggles >>

Next ==
  \/ ToggleMode
  \/ \E text \in RawInputs : AddPlate(text)
  \/ \E id \in Ids(plates) : RemovePlate(id)
  \/ \E outcome \in CameraOutcomes : CameraSettle(outcome)
  \/ VideoData
  \/ VideoStall
  \/ \E ctxOk \in BOOLEAN : Tick(ctxOk)
  \/ \E r \in inflight, resp \in Responses : Settle(r, resp)
  \/ DecayFire

Spec == Init /\ [][Next]_vars


\* ------------------------------------------------- watchlist specification
\* startup from whatever the slot holds, then adds and removes in LIST mode
CorruptText == <<"[", "{", "8", "A", "B">>      \* a write cut short
ObjectText  == <<"{", "}">>                     \* valid JSON, not a list

SavedWatchlists ==
  { <<>>,
    << [id |-> 8, number |-> <<"A", "B", "1", "2">>] >>,
    << [id |-> 9, number |-> <<"Z", "Z", "9", "9">>],
       [id |-> 8, number |-> <<"A", "B", "1", "2">>] >> }

InitialStorage ==
  { Absent, Stored(<<>>), Stored(CorruptText), Stored(ObjectText) }
  \cup { Persisted(w) : w \in SavedWatchlists }

StoreInputs == RawInputs \cup { <<"b", "z", "-", "2", "9">> }

InitStore ==
  /\ mode = "LIST"
  /\ plates = <<>>
  /\ isProcessing = FALSE
  /\ apiStatus = "OK"
  /\ detectedRecently = NoPlate
  /\ sessionLog = <<>>
  /\ streamRef = NoStream
  /\ videoSrc = NoStream
  /\ frameReady = FALSE
  /\ liveStreams = {}
  /\ pendingCam = 0
  /\ interval = 0
  /\ inflight = {}
  /\ decayTimers = 0
  /\ nextId = 1
  /\ storage \in InitialStorage
  /\ phase = "created"
  /\ pendingLoad = ParseFailed
  /\ appended = <<>>
  /\ alertCount = 0
  /\ busySkipped = FALSE
  /\ lastAlert = NoAlert
  /\ client = ClientIdle
  /\ nReq = 0
  /\ nToggles = 0

\* the first flush of the three effects, in declaration order.  An error
\* thrown by the load effect escapes to React and the component tree is
\* unmounted; whether the persist effect after it still ran depends on the
\* React version.
MountEffects ==
  LET saved  == storage
      truthy == saved.present /\ saved.text # <<>>
      parsed == parseSaved(saved.text)
  IN
  /\ phase = "created"
  /\ IF truthy /\ ~parsed.ok
     THEN /\ phase' = "crashed"
          /\ NoEffect
          /\ storage' \in { storage, Persisted(plates) }
          /\ UNCHANGED pendingLoad
     ELSE /\ pendingLoad' = IF truthy THEN parsed ELSE pendingLoad
          /\ storage' = Persisted(plates)
          /\ ModeEffect(mode)
          /\ phase' = IF truthy THEN "mounted" ELSE "running"
  /\ lastAlert' = NoAlert
  /\ UNCHANGED client
  /\ UNCHANGED << mode, plates, isProcessing, apiStatus, detectedRecently, sessionLog,
                  videoSrc, frameReady, inflight, decayTimers, nextId,
                  appended, alertCount, busySkipped, nReq, nToggles >>

\* the re-render setPlates(JSON.parse(saved)) asked for; rendering a value
\* that is not a list throws (plates.map is not a function)
FirstRerender ==
  /\ phase = "mounted"
  /\ IF ~pendingLoad.isList
     THEN /\ phase' = "crashed"
          /\ NoEffect
          /\ UNCHANGED << plates, storage >>
     ELSE /\ plates' = pendingLoad.value
          /\ storage' = Persisted(plates')
          /\ ModeEffect(mode)
          /\ phase' = "running"
  /\ lastAlert' = NoAlert
  /\ UNCHANGED client
  /\ UNCHANGED << mode, isProcessing, apiStatus, detectedRecently, sessionLog,
                  videoSrc, frameReady, inflight, decayTimers, nextId, pendingLoad,
                  appended, alertCount, busySkipped, nReq, nToggles >>

\* remove(id) is also applied to an id no entry has (0)
NextStore ==
  \/ MountEffects
  \/ FirstRerender
  \/ \E text \in StoreInputs : AddPlate(text)
  \/ \E id \in Ids(plates) \cup {0} : RemovePlate(id)

SpecStore == InitStore /\ [][NextStore]_vars

\* --------------------------------------------------- client specification
\* calls of the recognition client on their own, over payload lengths and
\* backend answers
InitClient == AppInit /\ client \in ClientInputs

Recognize ==
  /\ ~client.done
  /\ LET out == detectPlatesCall(client.len, client.resp) IN
     client' = [client EXCEPT !.done = TRUE, !.ret = out.ret, !.calls = out.calls]
  /\ NoEffect
  /\ UNCHANGED << mode, plates, isProcessing, apiStatus, detectedRecently, sessionLog,
                  videoSrc, frameReady, inflight, decayTimers, nextId, storeVars,
                  appended, alertCount, busySkipped, lastAlert, nReq, nToggles >>

NextClient == Recognize

SpecClient == InitClient /\ [][NextClient]_vars

\* ----------------------------------------------- session-log specification
\* addLog applied to arbitrary event sequences, past the capacity of the log
LogInputs ==
  { Entry(<<"A", "B", "1", "2">>, "SUCCESS", TRUE),
    Entry(SignalLoss, "ERROR", FALSE) }

AppendLog(e) ==
  /\ Len(appended) < MaxLogEvents
  /\ UNCHANGED << storeVars, lastAlert, client >>
  /\ sessionLog' = addLog(sessionLog, e.number, e.type, e.match)
  /\ appended' = <<e>> \o appended
  /\ UNCHANGED << mode, plates, isProcessing, apiStatus, detectedRecently,
                  streamRef, videoSrc, frameReady, liveStreams, pendingCam,
                  interval, inflight, decayTimers, nextId, alertCount,
                  busySkipped, nReq, nToggles >>

NextLog == \E e \in LogInputs : AppendLog(e)

SpecLog == Init /\ [][NextLog]_vars

\* ------------------------------------------------------------------ claims
\* a step in which a suspended processFrame call resumed
SettleStep == inflight' # inflight /\ inflight' \subseteq inflight

\* the entries a step appended, oldest first
Added == [ i \in 1..(Len(appended') - Len(appended)) |->
             appended'[Len(appended') - Len(appended) - i + 1] ]

QuotaResponse == [kind |-> "error", plates |-> <<>>, message |-> Msg429]

\* C1: at most one recognition request is outstanding at any time, whatever
\* the interleaving of ticks, completions, mode toggles and watchlist edits.
C1_AtMostOneOutstanding == Cardinality(inflight) <= 1

\* a tick fired while a request was outstanding, and the request still is
C1_Witness == busySkipped /\ Cardinality(inflight) = 1 /\ mode = "FLASH" /\ nToggles = 3

\* C2: a result that resolves while the mode is LIST is discarded: no log
\* entry, no alert, no lastMatch.
C2_StaleResultDiscarded ==
  [][ (SettleStep /\ mode = "LIST") =>
        /\ appended' = appended
        /\ sessionLog' = sessionLog
        /\ alertCount' = alertCount
        /\ detectedRecently' = detectedRecently ]_vars

\* C3: reconciliation reads the watchlist as it is when the call resolves: an
\* entry is logged as matched, and an alert raised, only for a plate that is
\* on the watchlist at that moment.
C3_ReadFreshWatchlist ==
  [][ SettleStep =>
        /\ \A i \in DOMAIN Added :
             Added[i].number \notin Numbers(plates) => ~Added[i].match
        /\ alertCount' > alertCount =>
             \E i \in DOMAIN Added : Added[i].number \in Numbers(plates) ]_vars

\* C4: a recognition failure that is not a quota failure adds exactly one
\* ERROR entry to the session log and sets apiStatus to ERROR.
C4_NonQuotaFailureLogged ==
  [][ \A r \in inflight, resp \in Responses :
        (Settle(r, resp) /\ resp.kind = "error" /\ resp.message # Msg429) =>
          /\ apiStatus' = "ERROR"
          /\ Len(Added) = 1
          /\ Added[1].type = "ERROR" ]_vars

\* C5: a quota failure reaches the capture loop as the QUOTA_EXCEEDED error,
\* which sets apiStatus to QUOTA and adds nothing to the session log.
C5_QuotaPropagated ==
  [][ \A r \in inflight :
        Settle(r, QuotaResponse) =>
          /\ detectPlatesFromImage(QuotaResponse) = Thrown("QUOTA_EXCEEDED")
          /\ apiStatus' = "QUOTA"
          /\ sessionLog' = sessionLog
          /\ appended' = appended ]_vars

\* a request failed on quota and nothing was logged for it
C5_Witness == apiStatus = "QUOTA" /\ nReq = 1 /\ inflight = {} /\ appended = <<>>

\* C6: never more than one camera stream with live tracks, and a stream with
\* live tracks is the session's current stream.
C6_SingleLiveStream ==
  Cardinality(liveStreams) <= 1 /\ liveStreams \subseteq {streamRef}

\* C7: in LIST mode, once every camera acquisition has resolved, no stream has
\* live tracks.
C7_ReleasedInList == (mode = "LIST" /\ pendingCam = 0) => liveStreams = {}

\* C8: when a recognition call resolves or fails the in-flight flag is
\* cleared and, in scan mode, the timer runs at the unchanged period; a tick
\* that then finds a usable frame issues a new request.
C8_LoopSurvivesFailures ==
  /\ [][ SettleStep => (~isProcessing' /\ (mode' = "FLASH" => interval' = TickPeriod)) ]_vars
  /\ [][ (Tick(TRUE) /\ mode = "FLASH" /\ frameReady /\ inflight = {}) =>
           Cardinality(inflight') = 1 ]_vars
  /\ [](  (mode = "FLASH" /\ frameReady /\ inflight = {} /\ nReq < MaxRequests) =>
           ENABLED (Tick(TRUE) /\ inflight' # inflight) )

\* a request is outstanding that was issued after an earlier one failed on quota
C8_Witness == apiStatus = "QUOTA" /\ nReq = 2 /\ Cardinality(inflight) = 1

\* C9: every returned plate adds one entry, matched exactly when its
\* normalized form is the number of a watchlist entry, SUCCESS when matched
\* and INFO otherwise; lastMatch changes only on a match.
C9_ReconcilePerPlate ==
  [][ \A r \in inflight, resp \in Responses :
        (Settle(r, resp) /\ resp.kind = "ok") =>
          /\ Len(Added) = Len(resp.plates)
          /\ \A i \in DOMAIN Added :
               /\ Added[i].number = normalizePlate(resp.plates[i])
               /\ Added[i].match = (Added[i].number \in Numbers(plates))
               /\ Added[i].type = IF Added[i].match THEN "SUCCESS" ELSE "INFO"
          /\ detectedRecently' # detectedRecently =>
               \E i \in DOMAIN Added : Added[i].number \in Numbers(plates) ]_vars

\* C10: the session log holds at most 15 entries, exactly the most recently
\* appended ones, newest first, and an append shifts the existing entries
\* without changing them.
C10_LogBounded ==
  /\ [](Len(sessionLog) <= LogCap /\ sessionLog = Take(appended, LogCap))
  /\ [][ \A i \in 1..Len(sessionLog) :
           i + 1 <= Len(sessionLog') => sessionLog'[i + 1] = sessionLog[i] ]_vars

\* a sixteenth event was appended to a full log
C10_Witness == Len(appended) > LogCap /\ Len(sessionLog) = LogCap


\* ---------------------------------------------------------------- watchlist
Alnum == Uppers \cup Digits

\* C11: once the watchlist is loaded, and after any add or remove, the numbers
\* in it are pairwise distinct, consist only of A-Z and 0-9, and have at
\* least four characters.
C11_WatchlistWellFormed ==
  phase = "running" =>
    /\ \A i, j \in 1..Len(plates) : plates[i].number = plates[j].number => i = j
    /\ \A i \in 1..Len(plates) :
         /\ Len(plates[i].number) >= MinPlateLen
         /\ \A k \in 1..Len(plates[i].number) : plates[i].number[k] \in Alnum

\* a loaded watchlist that grew by an add and then turned a duplicate away
C11_Witness ==
  /\ phase = "running"
  /\ pendingLoad.isList /\ Len(pendingLoad.value) = 2
  /\ Len(plates) = 3
  /\ lastAlert = AlertDuplicate

\* C12: add fails with InvalidFormat when the normalized text is shorter than
\* four characters and with DuplicateEntry when it is already watched, and in
\* both cases leaves the watchlist and the persisted store as they were;
\* otherwise the new entry is put at the front and the others are unchanged.
C12_AddOutcome ==
  [][ \A text \in StoreInputs :
        AddPlate(text) =>
          LET norm == normalizePlate(text) IN
          IF Len(norm) < MinPlateLen
          THEN lastAlert' = AlertInvalid /\ plates' = plates /\ storage' = storage
          ELSE IF \E i \in 1..Len(plates) : plates[i].number = norm
          THEN lastAlert' = AlertDuplicate /\ plates' = plates /\ storage' = storage
          ELSE /\ lastAlert' = NoAlert
               /\ Len(plates') = Len(plates) + 1
               /\ plates'[1].number = norm
               /\ plates'[1].id \notin Ids(plates)
               /\ Tail(plates') = plates ]_vars

\* an invalid text was turned away from a non-empty watchlist
C12_Witness ==
  /\ phase = "running"
  /\ lastAlert = AlertInvalid
  /\ nextId > 1
  /\ plates # <<>>

\* C13: after every mutation of the watchlist the persisted store holds the
\* serialization of the in-memory list, and reading it back gives that list.
C13_StoreMirrorsWatchlist ==
  phase = "running" =>
    /\ storage.present
    /\ storage.text = stringify(plates)
    /\ parseSaved(storage.text) = ParsedList(plates)

\* both an add and a remove have been persisted
C13_Witness ==
  /\ phase = "running"
  /\ nextId > 1
  /\ pendingLoad.isList /\ Len(pendingLoad.value) = 2
  /\ Len(plates) = 2
  /\ 9 \notin Ids(plates)

\* C14: load fails soft: with the slot absent or holding corrupt data the
\* startup completes with an empty watchlist and no error escapes.
C14_LoadFailsSoft ==
  /\ phase # "crashed"
  /\ (phase = "running" /\ ~pendingLoad.isList) => plates = <<>>

\* C18: remove(id) deletes exactly the entry with that id, keeps the other
\* entries and their order, and changes nothing when no entry has the id.
C18_RemoveExact ==
  [][ \A id \in IdRange :
        RemovePlate(id) =>
          IF id \in Ids(plates)
          THEN \E k \in 1..Len(plates) :
                 /\ plates[k].id = id
                 /\ plates' = SubSeq(plates, 1, k - 1) \o SubSeq(plates, k + 1, Len(plates))
          ELSE plates' = plates ]_vars

\* the older of two loaded entries was removed, the newer one stays
C18_Witness ==
  /\ phase = "running"
  /\ pendingLoad.isList /\ Len(pendingLoad.value) = 2
  /\ nextId = 1
  /\ Len(plates) = 1
  /\ plates[1].id = 9

\* ------------------------------------------------------- display and camera
\* C15: when two matches occur less than one display window apart, the timer
\* started by the earlier match does not clear the lastMatch set by the later
\* one.
C15_LaterMatchSurvives ==
  [][ (DecayFire /\ decayTimers > 1 /\ detectedRecently # NoPlate)
        => detectedRecently' = detectedRecently ]_vars

IssueStep == nReq' = nReq + 1

\* C19: a recognition request is issued only in FLASH mode with a usable
\* frame; in LIST mode the timer is stopped, and without a usable frame
\* (no stream attached, as after a failed acquisition) no request is issued.
C19_RequestOnlyWhenScanning ==
  /\ [](mode = "LIST" => interval = 0)
  /\ [](frameReady => videoSrc # NoStream)
  /\ [][ IssueStep => (mode = "FLASH" /\ interval # 0 /\ frameReady
                         /\ videoSrc # NoStream) ]_vars

\* back in LIST with the timer stopped after a scan that issued a request
C19_Witness ==
  /\ mode = "LIST"
  /\ interval = 0
  /\ nReq >= 1
  /\ nToggles >= 2

\* C20: while the mode stays FLASH, a request's lifecycle and watchlist
\* changes neither release nor re-acquire the camera nor restart the timer.
C20_CameraStableWhileScanning ==
  [][ (mode = "FLASH" /\ mode' = "FLASH"
        /\ (isProcessing' # isProcessing \/ plates' # plates))
        => (pendingCam' <= pendingCam /\ liveStreams \subseteq liveStreams'
              /\ streamRef' = streamRef) ]_vars

\* ------------------------------------------------------- recognition client
SuccessResponse == client.resp.kind \in {"ok", "text"}

\* C16: on a success response the client never raises: an empty text, a text
\* that is not valid JSON, or one whose plates field is absent or not a
\* sequence gives an empty sequence; otherwise the plates sequence.
C16_SuccessNeverRaises ==
  (client.done /\ client.calls = 1 /\ SuccessResponse) =>
    /\ ~client.ret.threw
    /\ client.resp.kind = "ok" => client.ret.plates = client.resp.plates
    /\ client.resp.kind = "text" =>
         LET result == parseBody(trim(client.resp.text)) IN
         client.ret.plates = IF result.ok /\ result.isArray THEN result.plates ELSE <<>>

\* C17: a payload shorter than 50 gives an empty plate list without a
\* backend call, and no invocation makes more than one backend call.
C17_SmallPayloadNoCall ==
  client.done =>
    /\ client.calls <= 1
    /\ client.len < MinPayload =>
         (client.calls = 0 /\ client.ret = Returned(<<>>))

\* a 49-character payload was turned away although the backend had plates
C17_Witness ==
  /\ client.done
  /\ client.len = 49
  /\ client.calls = 0
  /\ client.resp.kind = "ok" /\ client.resp.plates # <<>>

\* ------------------------------------------------------------------ startup
SavedList == storage.present /\ storage.text # <<>> /\ parseSaved(storage.text).isList

\* C21: startup never clobbers the durable copy: a slot holding a saved
\* watchlist is rewritten only by an add or a remove, until the saved
\* watchlist has been loaded the slot still holds it, and the watchlist in
\* memory after startup is the one that was saved.
C21_StartupKeepsDurableCopy ==
  /\ [][ (SavedList /\ storage' # storage)
          => (phase = "running" /\ plates' # plates) ]_vars
  /\ []((phase = "mounted" /\ pendingLoad.isList)
          => storage = Persisted(pendingLoad.value))
  /\ [][ (phase = "mounted" /\ phase' = "running")
          => plates' = pendingLoad.value ]_vars
====
